---- MODULE Spec2Model ----
(***************************************************************************)
(* Model of the client-side real-time core of FinanceGPT-PRO:              *)
(*   - WebSocketService (services/websocketService.ts): the live update    *)
(*     channel, its socket lifecycle, reconnect timers and listener        *)
(*     registry;                                                           *)
(*   - AIChatService (aiChatService): the streaming response client;       *)
(*   - handleSendMessage (components/ModernDashboard.tsx): the loop that   *)
(*     consumes the fragments and extracts the tool metadata.              *)
(* JavaScript runs handlers to completion on one thread, so every action   *)
(* below is one handler (or one API call) executed atomically.             *)
(***************************************************************************)
EXTENDS Integers, Sequences, FiniteSets, TLC

\* ---------------------------------------------------------------- bounds
MaxSockets == 3          \* WebSocket objects created in one run of Spec
MaxAppCalls == 3         \* connect() and disconnect() calls made by the application in one run
StreakSockets == 7       \* WebSocket objects created in one run of SpecStreak
MaxSends == 2            \* sendMessage() calls in one run of SpecChat
MaxChunks == 2           \* reads that deliver data in one event-stream body
MaxLines == 2            \* content lines delivered by one read
MaxWords == 2            \* words of a single-document or fallback reply
MaxRegs == 2             \* subscribe() calls in one run of SpecRegistry
MaxBodyLines == 3        \* lines of one event-stream body in SpecStream
MaxTextLen == 3          \* characters of the response text in SpecDocument
CapCalls == 2            \* connect() calls made by the application in one run of SpecCap
MaxOutbox == 1           \* messages handed to sockets in one run of SpecSend
MaxFragments == 3        \* fragments of one generator in SpecDashboard

\* ------------------------------------------------------ program constants
maxReconnectAttempts == 5
reconnectDelay == 1000
NormalClosure == 1000                \* the code disconnect() passes and onclose tests
GoingAway == NormalClosure + 1       \* 1001: a close frame of the server with another code
NoStatusRcvd == NormalClosure + 5    \* 1005: close event after close() without a code
AbnormalClosure == NormalClosure + 6 \* 1006: close event of a failed connection

Users == {"A", "B"}
NoUser == "null"
Topics == {"accounts", "market"}
Callbacks == {"cb1", "cb2"}
Payloads == {"d1"}

\* ------------------------------------------------------------------ state
VARIABLES
  ws,                \* this.ws: index into sockets, 0 for null
  userId,            \* this.userId
  reconnectAttempts, \* this.reconnectAttempts
  isConnecting,      \* this.isConnecting
  sockets,           \* every WebSocket object created, in creation order
  promise,           \* promise[i]: the promise returned by the connect() that created socket i
  timeoutsFired,     \* how many of the 5000 ms timers have run (they run in creation order)
  reconnectTimers,   \* pending setTimeout callbacks registered by onclose
  ret,               \* the application's last call: what connect() returned, or that
                     \* it was disconnect() (and whether the call before it was too)
  appCalls,          \* number of connect() and disconnect() calls made by the application
  disconnected,      \* history: disconnect() was called and connect() not since
  switchedFrom,      \* history: user replaced by the last connect() for another user
  streak,            \* history: the current run of abnormal closes
  listeners,         \* this.listeners: topic -> its Set of callbacks, in insertion order
  regs,              \* history: every subscribe() call and whether its own unsubscribe ran
  lastMsg            \* history: what onmessage did with the last inbound message,
                     \* kept until the application next uses the registry

connVars == <<ws, userId, reconnectAttempts, isConnecting, sockets, promise,
              timeoutsFired, reconnectTimers, ret, appCalls,
              disconnected, switchedFrom, streak>>

regVars == <<listeners, regs, lastMsg>>

VARIABLES
  abortController,   \* AIChatService.abortController: index into calls, 0 for null
  calls              \* every sendMessage() call: its AbortController's signal, the
                     \* fetch, and the generator it returned

chatVars == <<abortController, calls>>

VARIABLES
  stream,            \* one event-stream response: the lines of its body, how the
                     \* reads cut it, and what handleStreamingResponse made of it
  document,          \* one single-document response: the parsed body and what
                     \* handleNonStreamingResponse made of it
  dashboard          \* one run of handleSendMessage: the fragments its generator
                     \* yields and what the for-await loop made of them

dataVars == <<stream, document, dashboard>>

VARIABLES
  outbox,            \* the messages the sockets took for transmission, in order
  lastSend           \* history: the last sendHeartbeat() or requestUpdate() call, the
                     \* connection state it found and whether it raised an error

outVars == <<outbox, lastSend>>

vars == <<connVars, regVars, chatVars, dataVars, outVars>>

\* ---------------------------------------------------------------- helpers
ReadyState(s) == sockets[s].readyState

\* getConnectionState()
GetConnectionState ==
  IF ws = 0 THEN "closed"
  ELSE CASE ReadyState(ws) = "CONNECTING" -> "connecting"
         [] ReadyState(ws) = "OPEN" -> "open"
         [] ReadyState(ws) = "CLOSING" -> "closing"
         [] OTHER -> "closed"

\* connect(), first guard
AlreadyConnecting ==
  isConnecting \/ (ws # 0 /\ ReadyState(ws) = "CONNECTING")

\* Mutant: the userId comparison is inverted.
AlreadyOpenFor_WrongUser(u) ==
  ws # 0 /\ ReadyState(ws) = "OPEN" /\ userId # u

\* connect(), second guard
AlreadyOpenFor(u) ==
  ws # 0 /\ ReadyState(ws) = "OPEN" /\ userId = u

\* Mutant: the close code is not tested.
ShouldReconnect_AnyCode(code) ==
  reconnectAttempts < maxReconnectAttempts

\* Mutant: the cap is tested with <= instead of <.
ShouldReconnect_OffByOne(code) ==
  code # NormalClosure /\ reconnectAttempts <= maxReconnectAttempts

\* onclose: the condition under which a reconnect is scheduled
ShouldReconnect(code) ==
  code # NormalClosure /\ reconnectAttempts < maxReconnectAttempts

\* onclose: the delay handed to setTimeout
ReconnectDelayMs == reconnectDelay * reconnectAttempts

\* WebSocket.close() called by connect() on the socket being replaced:
\* it acts on an OPEN socket only (a CONNECTING one never gets here).
CloseReplaced(socks) ==
  IF ws # 0 /\ socks[ws].readyState = "OPEN"
  THEN [socks EXCEPT ![ws].readyState = "CLOSING", ![ws].closeReq = "plain"]
  ELSE socks

\* resolve() or reject() on the promise of attempt i: a settled promise stays.
Settle(p, i, outcome) ==
  IF p[i] = "pending" THEN [p EXCEPT ![i] = outcome] ELSE p

\* An attempt is over once its socket is CLOSED and its 5000 ms timer has run:
\* nothing can reach its promise any more, and its outcome is no longer kept.
Forget(p, socks, fired) ==
  [i \in 1..Len(p) |->
     IF socks[i].readyState = "CLOSED" /\ i <= fired THEN "over" ELSE p[i]]

\* The body of connect(userId), run with this.reconnectAttempts = attempts.
ConnectBody(u, attempts) ==
  /\ reconnectAttempts' = attempts
  /\ IF AlreadyConnecting \/ AlreadyOpenFor(u)
     THEN UNCHANGED <<ws, userId, isConnecting, sockets, promise>>
     ELSE /\ userId' = u
          /\ isConnecting' = TRUE
          /\ sockets' = Append(CloseReplaced(sockets),
                               [user |-> u, readyState |-> "CONNECTING", closeReq |-> "none"])
          /\ ws' = Len(sockets) + 1
          /\ promise' = Append(promise, "pending")

NoLiveSocketBut(s) ==
  \A i \in 1..Len(sockets) : i # s => sockets[i].readyState = "CLOSED"

FreshStreak == [pure |-> TRUE, closes |-> 0, scheduled |-> 0]

\* The run of closes is broken (an application call, a normal close): its
\* counts are dropped.
NoStreak == [pure |-> FALSE, closes |-> 0, scheduled |-> 0]

\* Mutant: disconnect() leaves the registry as it is.
ClearListeners_Keep == listeners

\* disconnect(): this.listeners.clear()
ClearListeners == [t \in Topics |-> <<>>]

\* ------------------------------------------- the text of an event-stream
\* The body is a sequence of symbols: the newline, the two halves of the
\* prefix of a data line, the two halves of the terminal payload, and the
\* other payloads; a read may end after any symbol.
NL == "\n"
DataPrefix == <<"dat", "a: ">>
Done == <<"[DO", "NE]">>
JsonPayloads == {"{content:a}", "{content:b}", "{content:}"}
NotJson == "not-json"
Comment == ":"

\* The lines a server may send.
LineTexts ==
  {DataPrefix \o data : data \in {<<p>> : p \in JsonPayloads \cup {NotJson}} \cup {Done}}
    \cup {<<Comment>>}

\* line.startsWith(prefix)
StartsWith(line, prefix) ==
  Len(line) >= Len(prefix) /\ SubSeq(line, 1, Len(prefix)) = prefix

\* line.slice(n)
Slice(line, n) == SubSeq(line, n + 1, Len(line))

\* parsed.content of a payload that JSON.parse accepts
Content(p) ==
  CASE p = "{content:a}" -> <<"a">>
    [] p = "{content:b}" -> <<"b">>
    [] OTHER -> <<>>

\* JSON.parse(data) does not throw
JsonParses(data) == Len(data) = 1 /\ data[1] \in JsonPayloads

\* The bytes of a body: its lines, each followed by a newline, the last one
\* only when the body is terminated.
RECURSIVE Body(_, _)
Body(lines, terminated) ==
  IF lines = <<>> THEN <<>>
  ELSE IF Len(lines) = 1 THEN lines[1] \o (IF terminated THEN <<NL>> ELSE <<>>)
  ELSE lines[1] \o <<NL>> \o Body(Tail(lines), terminated)

\* The values reader.read() delivers: the text cut after the positions in cuts.
RECURSIVE Chunks(_, _)
Chunks(text, cuts) ==
  IF text = <<>> THEN <<>>
  ELSE IF cuts = {} THEN <<text>>
  ELSE LET k == CHOOSE c \in cuts : \A d \in cuts : c <= d
       IN <<SubSeq(text, 1, k)>>
            \o Chunks(SubSeq(text, k + 1, Len(text)), {c - k : c \in cuts \ {k}})

\* String.prototype.split(sep) for a one-character separator
RECURSIVE SplitAt(_, _)
SplitAt(text, sep) ==
  IF \A i \in 1..Len(text) : text[i] # sep THEN <<text>>
  ELSE LET k == CHOOSE i \in 1..Len(text) :
                  text[i] = sep /\ \A j \in 1..(i - 1) : text[j] # sep
       IN <<SubSeq(text, 1, k - 1)>> \o SplitAt(SubSeq(text, k + 1, Len(text)), sep)

\* buffer.split('\n')
Split(text) == SplitAt(text, NL)

\* Mutant: a payload that does not parse ends the walk of the lines.
RECURSIVE ForLines_StopOnBad(_, _, _)
ForLines_StopOnBad(lines, i, st) ==
  IF i > Len(lines) THEN st
  ELSE LET line == lines[i]
       IN IF StartsWith(line, DataPrefix)
          THEN LET data == Slice(line, Len(DataPrefix))
               IN IF data = Done THEN [st EXCEPT !.returned = TRUE]
                  ELSE IF ~JsonParses(data) THEN st
                  ELSE IF Content(data[1]) # <<>>
                       THEN ForLines_StopOnBad(lines, i + 1,
                                     [st EXCEPT !.out = Append(@, Content(data[1]))])
                       ELSE ForLines_StopOnBad(lines, i + 1, st)
          ELSE ForLines_StopOnBad(lines, i + 1, st)

\* for (const line of lines) { ... } of handleStreamingResponse, from line i on.
RECURSIVE ForLines(_, _, _)
ForLines(lines, i, st) ==
  IF i > Len(lines) THEN st
  ELSE LET line == lines[i]
       IN IF StartsWith(line, DataPrefix)
          THEN LET data == Slice(line, Len(DataPrefix))
               IN IF data = Done THEN [st EXCEPT !.returned = TRUE]
                  ELSE IF JsonParses(data) /\ Content(data[1]) # <<>>
                       THEN ForLines(lines, i + 1,
                                     [st EXCEPT !.out = Append(@, Content(data[1]))])
                       ELSE ForLines(lines, i + 1, st)
          ELSE ForLines(lines, i + 1, st)

\* Mutant: the text after the last newline of a read is walked as a line
\* instead of being kept for the next read.
RECURSIVE ReadLoop_NoCarry(_, _, _, _)
ReadLoop_NoCarry(chunks, k, buffer, st) ==
  IF k > Len(chunks) THEN [st EXCEPT !.reads = k, !.how = "done"]
  ELSE LET walked == ForLines(Split(buffer \o chunks[k]), 1, st)
       IN IF walked.returned THEN [walked EXCEPT !.reads = k, !.how = "done"]
          ELSE ReadLoop_NoCarry(chunks, k + 1, <<>>, walked)

\* Mutant: the loop goes on after a [DONE] line.
RECURSIVE ReadLoop_IgnoreDone(_, _, _, _)
ReadLoop_IgnoreDone(chunks, k, buffer, st) ==
  IF k > Len(chunks) THEN [st EXCEPT !.reads = k, !.how = "done"]
  ELSE LET lines == Split(buffer \o chunks[k])
           walked == ForLines(SubSeq(lines, 1, Len(lines) - 1), 1, st)
       IN ReadLoop_IgnoreDone(chunks, k + 1, lines[Len(lines)], walked)

\* while (true) { read; split; walk the lines } of handleStreamingResponse,
\* from the k-th read on.
RECURSIVE ReadLoop(_, _, _, _)
ReadLoop(chunks, k, buffer, st) ==
  IF k > Len(chunks) THEN [st EXCEPT !.reads = k, !.how = "done"]
  ELSE LET lines == Split(buffer \o chunks[k])
           walked == ForLines(SubSeq(lines, 1, Len(lines) - 1), 1, st)
       IN IF walked.returned THEN [walked EXCEPT !.reads = k, !.how = "done"]
          ELSE ReadLoop(chunks, k + 1, lines[Len(lines)], walked)

NotRun == [out |-> <<>>, returned |-> FALSE, reads |-> 0, how |-> "pending"]

\* handleStreamingResponse(response), consumed to its end.
HandleStreamingResponse(chunks) == ReadLoop(chunks, 1, <<>>, NotRun)

NoStream == [lines |-> <<>>, terminated |-> TRUE, cuts |-> {}, run |-> NotRun,
             sent |-> FALSE]

\* ------------------------------------------ the single-document response
Space == " "
McpStart == "[MCP_TOOLS_START]"
McpEnd == "[MCP_TOOLS_END]"
MetaJson == "{tools,insights,intents}"   \* the text JSON.stringify returns
Letters == {"x", "y"}

\* The sentence used when the document has neither response nor message.
DefaultMessage == <<"I", Space, "understand">>

\* data.response || data.message || '...': an absent and an empty field are
\* both falsy and both written <<>>.
MessageOf(data) ==
  IF data.response # <<>> THEN data.response
  ELSE IF data.message # <<>> THEN data.message
  ELSE DefaultMessage

\* Mutant: every word is followed by a separator.
WordFragment_AlwaysSpace(words, i) == words[i] \o <<Space>>

\* words[i] + (i < words.length - 1 ? ' ' : ''), with i counted from 1
WordFragment(words, i) ==
  words[i] \o (IF i < Len(words) THEN <<Space>> ELSE <<>>)

\* handleNonStreamingResponse(response), consumed to its end, for a body that
\* parsed to data.
HandleNonStreamingResponse(data) ==
  LET words == SplitAt(MessageOf(data), Space)
      meta == IF Len(data.mcp_tools_used) > 0
              THEN <<(<<McpStart, MetaJson, McpEnd>>)>> ELSE <<>>
  IN [out |-> meta \o [i \in 1..Len(words) |-> WordFragment(words, i)],
      how |-> "done"]

NoDocument ==
  [data |-> [response |-> <<>>, message |-> <<>>, mcp_tools_used |-> <<>>],
   run |-> [out |-> <<>>, how |-> "pending"], sent |-> FALSE]

\* ------------------------------------- the consumer loop of the dashboard
\* chunk.includes(marker)
Includes(chunk, sym) == \E i \in 1..Len(chunk) : chunk[i] = sym

\* chunk.match(/\[MCP_TOOLS_START\](.*?)\[MCP_TOOLS_END\]/): the first start
\* marker and the first end marker after it. Fragments hold no line break.
Match(chunk) ==
  IF \E i, j \in 1..Len(chunk) : i < j /\ chunk[i] = McpStart /\ chunk[j] = McpEnd
  THEN LET a == CHOOSE i \in 1..Len(chunk) :
                  chunk[i] = McpStart /\ \A k \in 1..(i - 1) : chunk[k] # McpStart
           b == CHOOSE j \in (a + 1)..Len(chunk) :
                  chunk[j] = McpEnd /\ \A k \in (a + 1)..(j - 1) : chunk[k] # McpEnd
       IN [found |-> TRUE, from |-> a, to |-> b]
  ELSE [found |-> FALSE, from |-> 0, to |-> 0]

\* The metadata payloads a stream may carry.
OtherMetaJson == "{tools2,insights2,intents2}"
MetaJsons == {MetaJson, OtherMetaJson}

\* let mcpToolsData = null
Null == "null"

\* JSON.parse(toolsMatch[1]) does not throw; the value it returns is written
\* as its text.
ParsesAsJson(group) == Len(group) = 1 /\ group[1] \in MetaJsons

\* chunk.trim() is not empty
Trimmed(chunk) == \E i \in 1..Len(chunk) : chunk[i] # Space

\* The part of the loop body after the metadata block: the chunk is shown in
\* the chat history and added to fullResponse.
Show(st, chunk) ==
  LET shown ==
        IF st.isFirstChunk /\ Trimmed(chunk)
        THEN [st EXCEPT !.message = chunk, !.mcpTools = st.mcpToolsData,
                        !.isFirstChunk = FALSE]
        ELSE IF ~st.isFirstChunk
             THEN [st EXCEPT !.message = @ \o chunk,
                             !.mcpTools = IF st.mcpToolsData # Null /\ @ = Null
                                          THEN st.mcpToolsData ELSE @]
        ELSE st
  IN [shown EXCEPT !.fullResponse = @ \o chunk]

\* The body of for await (const chunk of responseStream).
LoopBody(st, chunk) ==
  LET m == Match(chunk)
  IN IF Includes(chunk, McpStart) /\ Includes(chunk, McpEnd) /\ m.found
        /\ ParsesAsJson(SubSeq(chunk, m.from + 1, m.to - 1))
     THEN LET cleanChunk == SubSeq(chunk, 1, m.from - 1)
                              \o SubSeq(chunk, m.to + 1, Len(chunk))
          IN [st EXCEPT !.mcpToolsData = chunk[m.from + 1],
                        !.fullResponse = IF Trimmed(cleanChunk) THEN @ \o cleanChunk
                                         ELSE @]
     ELSE Show(st, chunk)

RECURSIVE ForAwait(_, _, _)
ForAwait(fragments, i, st) ==
  IF i > Len(fragments) THEN [st EXCEPT !.how = "done"]
  ELSE ForAwait(fragments, i + 1, LoopBody(st, fragments[i]))

NoDashboard ==
  [fragments |-> <<>>,
   run |-> [message |-> <<>>, mcpTools |-> Null, fullResponse |-> <<>>,
            mcpToolsData |-> Null, isFirstChunk |-> TRUE, how |-> "pending"],
   sent |-> FALSE]

\* ------------------------------------------------------------------- Init
Init ==
  /\ ws = 0
  /\ userId = NoUser
  /\ reconnectAttempts = 0
  /\ isConnecting = FALSE
  /\ sockets = <<>>
  /\ promise = <<>>
  /\ timeoutsFired = 0
  /\ reconnectTimers = {}
  /\ ret = "none"
  /\ appCalls = 0
  /\ disconnected = FALSE
  /\ switchedFrom = NoUser
  /\ streak = FreshStreak
  /\ listeners = [t \in Topics |-> <<>>]
  /\ regs = <<>>
  /\ lastMsg = [kind |-> "none"]
  /\ abortController = 0
  /\ calls = <<>>
  /\ stream = NoStream
  /\ document = NoDocument
  /\ dashboard = NoDashboard
  /\ outbox = <<>>
  /\ lastSend = [call |-> "none"]

\* ---------------------------------------------------------------- actions
\* The application calls connect(u).
Connect(u) ==
  /\ appCalls' = appCalls + 1
  /\ ConnectBody(u, reconnectAttempts)
  /\ ret' = IF AlreadyConnecting THEN "resolvedConnecting"
            ELSE IF AlreadyOpenFor(u) THEN "resolvedOpen" ELSE "promise"
  /\ disconnected' = FALSE
  /\ switchedFrom' =
       IF ~AlreadyConnecting /\ ws # 0 /\ ReadyState(ws) = "OPEN" /\ userId # u
       THEN userId
       ELSE IF switchedFrom = u THEN NoUser ELSE switchedFrom
  /\ streak' = IF Len(sockets) = 0 THEN streak ELSE NoStreak
  /\ UNCHANGED <<timeoutsFired, reconnectTimers, regVars, chatVars, dataVars, outVars>>

\* The application calls disconnect().
Disconnect ==
  /\ appCalls' = appCalls + 1
  /\ IF ws # 0
     THEN sockets' =
            CASE ReadyState(ws) = "CONNECTING" ->
                   [sockets EXCEPT ![ws].readyState = "CLOSING", ![ws].closeReq = "abort"]
              [] ReadyState(ws) = "OPEN" ->
                   [sockets EXCEPT ![ws].readyState = "CLOSING", ![ws].closeReq = "normal"]
              [] OTHER -> sockets
     ELSE UNCHANGED sockets
  /\ ws' = 0
  /\ userId' = NoUser
  /\ disconnected' = TRUE
  /\ ret' = IF ret \in {"disconnected", "disconnectedAgain"}
            THEN "disconnectedAgain" ELSE "disconnected"
  /\ streak' = NoStreak
  /\ switchedFrom' = NoUser
  /\ listeners' = ClearListeners
  /\ regs' = [i \in 1..Len(regs) |-> [regs[i] EXCEPT !.active = FALSE]]
  /\ lastMsg' = [kind |-> "none"]
  /\ UNCHANGED <<reconnectAttempts, isConnecting, promise, timeoutsFired,
                 reconnectTimers, chatVars, dataVars, outVars>>

\* ws.onopen of socket s.
SocketOpen(s) ==
  /\ ReadyState(s) = "CONNECTING"
  /\ sockets' = [sockets EXCEPT ![s].readyState = "OPEN"]
  /\ isConnecting' = FALSE
  /\ reconnectAttempts' = 0
  /\ promise' = Settle(promise, s, "resolved")
  /\ streak' = IF reconnectTimers = {} /\ NoLiveSocketBut(s) THEN FreshStreak ELSE NoStreak
  /\ UNCHANGED <<ws, userId, timeoutsFired, reconnectTimers, ret, appCalls, disconnected, switchedFrom, regVars, chatVars, dataVars, outVars>>

\* ws.onclose of socket s with event.code = code, after the socket reached CLOSED.
\* p is the promise table as the handlers that ran before onclose left it.
OnClose(s, code, p) ==
  /\ sockets' = [sockets EXCEPT ![s].readyState = "CLOSED", ![s].closeReq = "none"]
  /\ isConnecting' = FALSE
  /\ promise' = Forget(p, sockets', timeoutsFired)
  /\ IF ShouldReconnect(code)
     THEN /\ reconnectTimers' = reconnectTimers \cup
                {[sock |-> s, user |-> sockets[s].user, delay |-> ReconnectDelayMs,
                  k |-> IF streak.pure THEN streak.scheduled + 1 ELSE 0]}
          /\ streak' = IF streak.pure
                       THEN [streak EXCEPT !.closes = @ + 1, !.scheduled = @ + 1]
                       ELSE NoStreak
     ELSE /\ UNCHANGED reconnectTimers
          /\ streak' = IF streak.pure /\ code # NormalClosure
                       THEN [streak EXCEPT !.closes = @ + 1]
                       ELSE NoStreak
  /\ UNCHANGED <<ws, userId, reconnectAttempts, timeoutsFired, ret, appCalls, disconnected, switchedFrom, regVars, chatVars, dataVars, outVars>>

\* The close codes a close event can carry without a preceding error event.
CleanCodes(s) ==
  CASE ReadyState(s) = "OPEN" -> {NormalClosure, GoingAway}
    [] ReadyState(s) = "CLOSING" /\ sockets[s].closeReq = "normal" -> {NormalClosure}
    [] ReadyState(s) = "CLOSING" /\ sockets[s].closeReq = "plain" -> {NoStatusRcvd}
    [] ReadyState(s) = "CLOSING" /\ sockets[s].closeReq = "server" ->
         {NormalClosure, GoingAway}
    [] OTHER -> {}

\* The closing handshake of socket s completes: close event only.
SocketClose(s, code) ==
  /\ code \in CleanCodes(s)
  /\ OnClose(s, code, promise)

\* The connection of socket s fails: error event, then close event with 1006.
SocketFail(s) ==
  /\ ReadyState(s) \in {"CONNECTING", "OPEN", "CLOSING"}
  /\ OnClose(s, AbnormalClosure, Settle(promise, s, "rejectedError"))

\* The 5000 ms timer of the next connect attempt runs.
TimeoutFire ==
  /\ timeoutsFired < Len(sockets)
  /\ timeoutsFired' = timeoutsFired + 1
  /\ IF isConnecting
     THEN /\ isConnecting' = FALSE
          /\ promise' = Forget(Settle(promise, timeoutsFired + 1, "rejectedTimeout"),
                               sockets, timeoutsFired')
     ELSE /\ UNCHANGED isConnecting
          /\ promise' = Forget(promise, sockets, timeoutsFired')
  /\ UNCHANGED <<ws, userId, reconnectAttempts, sockets, reconnectTimers, ret,
                 appCalls, disconnected, switchedFrom, streak,
                 regVars, chatVars, dataVars, outVars>>

\* A reconnect timer registered by onclose runs.
ReconnectFire(t) ==
  /\ t \in reconnectTimers
  /\ reconnectTimers' = reconnectTimers \ {t}
  /\ ConnectBody(t.user, reconnectAttempts + 1)
  /\ UNCHANGED <<timeoutsFired, ret, appCalls, disconnected,
                 switchedFrom, streak, regVars, chatVars, dataVars, outVars>>

\* A close frame of the server arrives on socket s: the closing handshake
\* starts, the close event follows when it is done.
ServerClosing(s) ==
  /\ ReadyState(s) = "OPEN"
  /\ sockets' = [sockets EXCEPT ![s].readyState = "CLOSING", ![s].closeReq = "server"]
  /\ UNCHANGED <<ws, userId, reconnectAttempts, isConnecting, promise, timeoutsFired,
                 reconnectTimers, ret, appCalls, disconnected, switchedFrom, streak,
                 regVars, chatVars, dataVars, outVars>>

\* ------------------------------------------------------ best-effort sends
\* Mutant: the ready state of the socket is not tested.
CanSend_AnyState == ws # 0

\* sendHeartbeat(), requestUpdate(): this.ws && this.ws.readyState === OPEN
CanSend == ws # 0 /\ ReadyState(ws) = "OPEN"

\* WebSocket.send(): throws on a CONNECTING socket, takes the message on an
\* OPEN one, discards it on a CLOSING or CLOSED one.
WsSend(message) ==
  /\ outbox' = IF CanSend /\ ReadyState(ws) = "OPEN"
               THEN Append(outbox, [sock |-> ws, message |-> message])
               ELSE outbox
  /\ lastSend' = [call |-> message.type, target |-> message.target,
                  found |-> GetConnectionState,
                  threw |-> CanSend /\ ReadyState(ws) = "CONNECTING"]
  /\ UNCHANGED <<connVars, regVars, chatVars, dataVars>>

\* sendHeartbeat()
SendHeartbeat == WsSend([type |-> "heartbeat", target |-> "none"])

\* requestUpdate(type)
RequestUpdate(type) == WsSend([type |-> "request_update", target |-> type])

\* ------------------------------------------------- the listener registry
Empty == "empty"   \* the slot of an entry deleted from a Set that is being iterated

Has(seq, x) == \E i \in 1..Len(seq) : seq[i] = x

\* Set.prototype.delete on a Set that is not being iterated
Delete(seq, x) == SelectSeq(seq, LAMBDA y : y # x)

\* Set.prototype.delete on the Set forEach is walking: the slot stays, emptied
Tombstone(seq, x) == [i \in 1..Len(seq) |-> IF seq[i] = x THEN Empty ELSE seq[i]]

\* Set.prototype.add
Add(seq, x) == IF Has(seq, x) THEN seq ELSE Append(seq, x)

\* The closure returned by subscribe(eventType, callback), applied to the registry.
UnsubscribeFrom(map, eventType, callback) ==
  [map EXCEPT ![eventType] = Delete(@, callback)]

\* subscribe(eventType, callback), applied to the registry.
SubscribeTo(map, eventType, callback) ==
  [map EXCEPT ![eventType] = Add(@, callback)]

\* What a callback does when it is invoked.
Return == [op |-> "return", reg |-> 0, cb |-> Empty]
Throw == [op |-> "throw", reg |-> 0, cb |-> Empty]
Behaviours(n) ==
  {Return, Throw}
    \cup {[op |-> "unsub", reg |-> i, cb |-> Empty] : i \in 1..n}
    \cup {[op |-> "sub", reg |-> 0, cb |-> c] : c \in Callbacks}

\* One behaviour for each callback registered for eventType; a callback that is
\* subscribed while the dispatch runs returns when it is invoked.
BehaviourChoices(eventType) ==
  LET registered == {listeners[eventType][i] : i \in 1..Len(listeners[eventType])}
  IN {[c \in Callbacks |-> IF c \in registered THEN f[c] ELSE Return] :
        f \in [registered -> Behaviours(Len(regs))]}

\* A callback calls an unsubscribe closure while notifyListeners walks the Set
\* of eventType.
ReentrantUnsub(st, eventType, i) ==
  LET t == st.regs[i].topic
      c == st.regs[i].cb
      map2 == UnsubscribeFrom(st.map, t, c)
      same == st.attached /\ t = eventType
  IN [st EXCEPT !.map = map2,
                !.regs = [@ EXCEPT ![i].active = FALSE],
                !.entries = IF same THEN Tombstone(@, c) ELSE @,
                !.attached = IF same /\ map2[t] = <<>> THEN FALSE ELSE @,
                !.mutated = TRUE]

\* A callback calls subscribe(eventType, c) while notifyListeners walks the Set
\* of eventType. Once the walked Set was pruned from the map, a new Set is made.
ReentrantSub(st, eventType, c) ==
  [st EXCEPT !.map = SubscribeTo(@, eventType, c),
             !.regs = Append(@, [topic |-> eventType, cb |-> c, active |-> TRUE]),
             !.entries = IF st.attached /\ ~Has(st.map[eventType], c)
                         THEN Append(@, c) ELSE @,
             !.mutated = TRUE]

\* listeners.forEach(callback => { try { callback(data) } catch ... }) from
\* entry i on; catch tells whether the call is wrapped in try/catch.
RECURSIVE ForEach(_, _, _, _, _, _)
ForEach(st, i, eventType, data, beh, catch) ==
  IF i > Len(st.entries) THEN st
  ELSE IF st.entries[i] = Empty THEN ForEach(st, i + 1, eventType, data, beh, catch)
  ELSE
    LET c == st.entries[i]
        b == beh[c]
        called == [st EXCEPT !.calls = Append(@, [cb |-> c, arg |-> data,
                                                  threw |-> b.op = "throw"])]
    IN CASE b.op = "throw" ->
              IF catch THEN ForEach(called, i + 1, eventType, data, beh, catch)
              ELSE [called EXCEPT !.escaped = TRUE]
         [] b.op = "unsub" ->
              ForEach(ReentrantUnsub(called, eventType, b.reg), i + 1,
                      eventType, data, beh, catch)
         [] b.op = "sub" ->
              ForEach(ReentrantSub(called, eventType, b.cb), i + 1,
                      eventType, data, beh, catch)
         [] OTHER -> ForEach(called, i + 1, eventType, data, beh, catch)

DispatchStart(eventType) ==
  [map |-> listeners, regs |-> regs, entries |-> listeners[eventType],
   attached |-> listeners[eventType] # <<>>, calls |-> <<>>,
   mutated |-> FALSE, escaped |-> FALSE]

\* Mutant: the callback is invoked without try/catch.
NotifyListeners_NoCatch(eventType, data, beh) ==
  ForEach(DispatchStart(eventType), 1, eventType, data, beh, FALSE)

\* notifyListeners(eventType, data); beh is what each callback does when invoked.
NotifyListeners(eventType, data, beh) ==
  ForEach(DispatchStart(eventType), 1, eventType, data, beh, TRUE)

\* The inbound messages: text that JSON.parse rejects, the JSON value null
\* (update.type throws), a JSON object without a type, and envelopes.
Envelopes == [type : Topics, data : Payloads]
Malformed == [type |-> "not-json", data |-> Empty]
JsonNull == [type |-> "json-null", data |-> Empty]
NoType == [type |-> "undefined", data |-> Empty]
Messages == Envelopes \cup {Malformed, JsonNull, NoType}

\* What the try block of onmessage throws before it reaches the callbacks.
ParseError(m) ==
  CASE m = Malformed -> "SyntaxError"
    [] m = JsonNull -> "TypeError"
    [] OTHER -> "none"

\* Mutant: the error leaves the handler.
OnMessageCatch_Rethrow(error) ==
  [kind |-> "dropped", error |-> error, calls |-> <<>>, escaped |-> TRUE]

\* onmessage: catch (error) { console.error(...) }
OnMessageCatch(error) ==
  [kind |-> "dropped", error |-> error, calls |-> <<>>, escaped |-> FALSE]

\* subscribe(eventType, callback), called by the application.
Subscribe(eventType, callback) ==
  /\ listeners' = SubscribeTo(listeners, eventType, callback)
  /\ regs' = Append(regs, [topic |-> eventType, cb |-> callback, active |-> TRUE])
  /\ lastMsg' = [kind |-> "none"]
  /\ UNCHANGED <<connVars, chatVars, dataVars, outVars>>

\* The application calls the closure that the i-th subscribe() returned.
Unsubscribe(i) ==
  /\ i \in 1..Len(regs)
  /\ listeners' = UnsubscribeFrom(listeners, regs[i].topic, regs[i].cb)
  /\ regs' = [regs EXCEPT ![i].active = FALSE]
  /\ lastMsg' = [kind |-> "none"]
  /\ UNCHANGED <<connVars, chatVars, dataVars, outVars>>

\* ws.onmessage of socket s with event.data = m.
OnMessage(s, m) ==
  /\ ReadyState(s) = "OPEN"
     \/ (ReadyState(s) = "CLOSING" /\ sockets[s].closeReq \in {"plain", "normal"})
  /\ IF m \in Envelopes
     THEN \E beh \in BehaviourChoices(m.type) :
          LET end == NotifyListeners(m.type, m, beh)
          IN /\ listeners' = end.map
             /\ regs' = end.regs
             /\ lastMsg' = [kind |-> "dispatched", envelope |-> m,
                            registered |-> listeners[m.type], calls |-> end.calls,
                            mutated |-> end.mutated, escaped |-> end.escaped,
                            afterDrop |-> lastMsg.kind = "dropped"]
     ELSE /\ lastMsg' = IF ParseError(m) # "none" THEN OnMessageCatch(ParseError(m))
                        ELSE \* this.listeners.get(undefined): no Set, no call
                             [kind |-> "dropped", error |-> "none", calls |-> <<>>,
                              escaped |-> FALSE]
          /\ UNCHANGED <<listeners, regs>>
  /\ UNCHANGED <<connVars, chatVars, dataVars, outVars>>

\* ------------------------------------------- the streaming response client
\* A call whose fetch or generator has not finished.
Active(c) == c.phase # "ended"

\* AbortController.abort() on the controller of call i; by names the caller.
Abort(cs, i, by) ==
  [cs EXCEPT ![i].aborted = TRUE,
             ![i].abortedBy = IF Active(cs[i]) /\ ~cs[i].aborted THEN by ELSE @]

NewCall ==
  [phase |-> "fetching", aborted |-> FALSE, abortedBy |-> "none", left |-> 0,
   reads |-> 0, lateYield |-> FALSE, outcome |-> "none", fetched |-> "none",
   ui |-> "streaming", reader |-> "none"]

\* sendMessage(message, context) up to its await of fetch().
SendMessage ==
  /\ calls' = Append(IF abortController # 0 THEN Abort(calls, abortController, "send")
                     ELSE calls,
                     NewCall)
  /\ abortController' = Len(calls) + 1
  /\ UNCHANGED <<connVars, regVars, dataVars, outVars>>

\* cancelRequest()
CancelRequest ==
  /\ abortController # 0
  /\ calls' = Abort(calls, abortController, "cancel")
  /\ abortController' = 0
  /\ UNCHANGED <<connVars, regVars, dataVars, outVars>>

\* The outcomes with which sendMessage() or a generator it returned throws.
Thrown == {"requestCancelled", "abortError", "syntaxError", "readError", "hardError"}

\* handleSendMessage of the dashboard, from the point where the await of
\* sendMessage() or the for-await loop over its generator is left: the catch
\* block appends a canned reply, the normal exit saves the conversation. The
\* loop is left before the generator's end only when its body throws.
HandleSendMessageExit(how) ==
  IF how \in Thrown \/ how = "abandoned" THEN "errorReply" ELSE "saved"

End(c, how) ==
  [c EXCEPT !.phase = "ended", !.outcome = how, !.ui = HandleSendMessageExit(how)]

\* Mutant: the generator ends without its finally block.
Finally_Skip(c) == c

\* handleStreamingResponse: finally { reader.releaseLock() }
Finally(c) == [c EXCEPT !.reader = "released"]

\* Mutant: a failed request is rethrown to the caller.
AfterFetch_Rethrow(c, result, words) ==
  IF c.aborted THEN End([c EXCEPT !.fetched = "aborted"], "requestCancelled")
  ELSE CASE result = "eventStream" -> [c EXCEPT !.phase = "sse", !.fetched = result]
         [] result = "document" -> [c EXCEPT !.phase = "docBody", !.fetched = result]
         [] OTHER -> End([c EXCEPT !.fetched = result], "hardError")

\* sendMessage() from the point where fetch() settles to its return or throw;
\* result is what the server or the network did, words the length of the
\* reply generateFallbackResponse builds.
AfterFetch(c, result, words) ==
  IF c.aborted
  THEN \* fetch rejects with AbortError: throw new Error('Request cancelled')
       End([c EXCEPT !.fetched = "aborted"], "requestCancelled")
  ELSE CASE result = "eventStream" -> [c EXCEPT !.phase = "sse", !.fetched = result]
         [] result = "document" -> [c EXCEPT !.phase = "docBody", !.fetched = result]
         [] OTHER -> \* !response.ok, or fetch rejected with a network error
              [c EXCEPT !.phase = "fallback", !.left = words, !.fetched = result]

\* The fetch of call i settles and sendMessage runs to its return or throw.
FetchSettle(i, result, words) ==
  /\ calls[i].phase = "fetching"
  /\ calls' = [calls EXCEPT ![i] = AfterFetch(calls[i], result, words)]
  /\ UNCHANGED <<abortController, connVars, regVars, dataVars, outVars>>

\* Call i's generator yields one fragment to the consumer.
Yield(c, leftAfter) ==
  [c EXCEPT !.left = leftAfter, !.lateYield = @ \/ c.aborted]

\* handleStreamingResponse, resumed by the consumer's next(): the lines of the
\* last read that are still to be walked come first, then reader.read().
\* lines > 0: the read delivers that many content lines; lines = 0: the body
\* ends (done, or a [DONE] line); body = "readError": the read fails because
\* the connection broke.
\* The first next() runs response.body.getReader(); whatever ends the
\* generator runs the finally block.
StreamingNext(c0, lines, body) ==
  LET c == [c0 EXCEPT !.reader = "held"]
      after ==
        IF c.left > 0 THEN Yield(c, c.left - 1)
        ELSE IF c.aborted THEN End(c, "abortError")
        ELSE IF body = "readError" THEN End(c, "readError")
        ELSE IF lines > 0 /\ c.reads < MaxChunks
             THEN [Yield(c, lines - 1) EXCEPT !.reads = @ + 1]
             ELSE End(c, "returned")
  IN IF after.phase = "ended" THEN Finally(after) ELSE after

\* The consumer leaves its loop early and calls return() on the generator of
\* handleStreamingResponse: a generator suspended at a yield runs its finally
\* block, one that was never started just ends.
ReturnNow(c) ==
  IF c.reader = "held" THEN Finally(End(c, "abandoned")) ELSE End(c, "abandoned")

\* handleNonStreamingResponse, first next(): await response.json(), then the
\* metadata fragment when tools were used, else the first word.
DocumentFirst(c, body, tools, words) ==
  IF c.aborted THEN End(c, "abortError")
  ELSE IF body = "readError" THEN End(c, "readError")
  ELSE IF body = "notJson" THEN End(c, "syntaxError")
  ELSE [Yield(c, IF tools THEN words ELSE words - 1) EXCEPT !.phase = "docWords"]

\* The word loops of handleNonStreamingResponse and generateFallbackResponse.
WordsNext(c) ==
  IF c.left > 0 THEN Yield(c, c.left - 1) ELSE End(c, "returned")

\* The consumer calls next() on the generator of call i.
Pull(i, lines, body, tools, words) ==
  /\ calls[i].phase \in {"sse", "docBody", "docWords", "fallback"}
  /\ calls' = [calls EXCEPT ![i] =
       CASE calls[i].phase = "sse" -> StreamingNext(calls[i], lines, body)
         [] calls[i].phase = "docBody" -> DocumentFirst(calls[i], body, tools, words)
         [] OTHER -> WordsNext(calls[i])]
  /\ UNCHANGED <<abortController, connVars, regVars, dataVars, outVars>>

\* The consumer abandons the event-stream generator of call i.
Abandon(i) ==
  /\ calls[i].phase = "sse"
  /\ calls' = [calls EXCEPT ![i] = ReturnNow(calls[i])]
  /\ UNCHANGED <<abortController, connVars, regVars, dataVars, outVars>>

\* The socket events: handshake done, closing handshake done, connection failed.
SocketEvent ==
  \/ \E s \in 1..Len(sockets) : SocketOpen(s)
  \/ \E s \in 1..Len(sockets) : \E code \in {NormalClosure, GoingAway, NoStatusRcvd} :
        SocketClose(s, code)
  \/ \E s \in 1..Len(sockets) : SocketFail(s)

\* Runs of the channel under every interleaving of application calls, socket
\* events and timers, cut off at the bounds.
Next ==
  \/ \E u \in Users :
        appCalls < MaxAppCalls /\ Connect(u) /\ Len(sockets') <= MaxSockets
  \/ appCalls < MaxAppCalls /\ Disconnect
  \/ SocketEvent
  \/ TimeoutFire
  \/ \E t \in reconnectTimers : ReconnectFire(t) /\ Len(sockets') <= MaxSockets
  \/ \E t \in Topics : appCalls = 0 /\ regs = <<>> /\ Subscribe(t, "cb1")

Spec == Init /\ [][Next]_vars

\* Runs in which the application connects once and then leaves the channel
\* alone: only socket events and timers follow.
StreakNext ==
  \/ \E u \in Users : appCalls = 0 /\ Connect(u)
  \/ SocketEvent
  \/ TimeoutFire
  \/ \E t \in reconnectTimers : ReconnectFire(t) /\ Len(sockets') <= StreakSockets

SpecStreak == Init /\ [][StreakNext]_vars

\* Runs in which the server stays unreachable for a long time and the
\* application calls connect() again while the channel is backing off.
CapNext ==
  \/ \E u \in Users :
        appCalls < CapCalls /\ Connect(u) /\ Len(sockets') <= StreakSockets
  \/ SocketEvent
  \/ TimeoutFire
  \/ \E t \in reconnectTimers : ReconnectFire(t) /\ Len(sockets') <= StreakSockets

SpecCap == Init /\ [][CapNext]_vars

\* Runs of the channel in which the application connects once, may disconnect,
\* and sends heartbeats and update requests in every connection state.
SendNext ==
  \/ \E u \in Users : appCalls = 0 /\ Connect(u)
  \/ appCalls < MaxAppCalls /\ Disconnect
  \/ SocketEvent
  \/ \E s \in 1..Len(sockets) : ServerClosing(s)
  \/ TimeoutFire
  \/ \E t \in reconnectTimers : ReconnectFire(t) /\ Len(sockets') <= MaxSockets
  \/ Len(outbox) < MaxOutbox /\ SendHeartbeat
  \/ \E type \in Topics : Len(outbox) < MaxOutbox /\ RequestUpdate(type)

SpecSend == Init /\ [][SendNext]_vars

\* Runs of the registry: one connection, subscriptions, inbound messages.
RegistryNext ==
  \/ \E u \in Users : appCalls = 0 /\ Connect(u)
  \/ \E s \in 1..Len(sockets) : SocketOpen(s)
  \/ \E t \in Topics, c \in Callbacks : Len(regs) < MaxRegs /\ Subscribe(t, c)
  \/ \E i \in 1..Len(regs) : Unsubscribe(i)
  \/ \E s \in 1..Len(sockets), m \in Messages :
       OnMessage(s, m) /\ Len(regs') <= MaxRegs
  \/ appCalls < MaxAppCalls /\ Disconnect

SpecRegistry == Init /\ [][RegistryNext]_vars

\* Runs of the streaming response client and a consumer of its generators.
ChatNext ==
  \/ Len(calls) < MaxSends /\ SendMessage
  \/ CancelRequest
  \/ \E i \in 1..Len(calls) :
       \E result \in {"eventStream", "document", "httpError", "networkError"},
          words \in 1..MaxWords : FetchSettle(i, result, words)
  \/ \E i \in 1..Len(calls) :
       \E lines \in 0..MaxLines, body \in {"json", "notJson", "readError"}, tools \in BOOLEAN,
          words \in 1..MaxWords : Pull(i, lines, body, tools, words)

SpecChat == Init /\ [][ChatNext]_vars

\* The server answers with an event-stream body.
Respond(lines, terminated, cuts) ==
  /\ ~stream.sent
  /\ stream' = [lines |-> lines, terminated |-> terminated, cuts |-> cuts,
                run |-> NotRun, sent |-> TRUE]
  /\ UNCHANGED <<connVars, regVars, chatVars, outVars, document, dashboard>>

\* The consumer iterates the generator of handleStreamingResponse to its end.
Drain ==
  /\ stream.sent
  /\ stream.run.how = "pending"
  /\ stream' = [stream EXCEPT !.run =
       HandleStreamingResponse(Chunks(Body(stream.lines, stream.terminated),
                                      stream.cuts))]
  /\ UNCHANGED <<connVars, regVars, chatVars, outVars, document, dashboard>>

\* Runs of handleStreamingResponse over every body and every way to cut it
\* into at most MaxChunks reads.
StreamNext ==
  \/ /\ ~stream.sent
     /\ \E n \in 1..MaxBodyLines : \E lines \in [1..n -> LineTexts] :
          \E terminated \in BOOLEAN :
            \E at \in [1..(MaxChunks - 1) -> 0..(Len(Body(lines, terminated)) - 1)] :
              Respond(lines, terminated, {at[i] : i \in 1..(MaxChunks - 1)} \ {0})
  \/ Drain

SpecStream == Init /\ [][StreamNext]_vars

\* The server answers with a JSON document.
DocRespond(data) ==
  /\ ~document.sent
  /\ document' = [data |-> data, run |-> NoDocument.run, sent |-> TRUE]
  /\ UNCHANGED <<connVars, regVars, chatVars, outVars, stream, dashboard>>

\* The consumer iterates the generator of handleNonStreamingResponse to its end.
DocDrain ==
  /\ document.sent
  /\ document.run.how = "pending"
  /\ document' = [document EXCEPT !.run = HandleNonStreamingResponse(document.data)]
  /\ UNCHANGED <<connVars, regVars, chatVars, outVars, stream, dashboard>>

\* The texts of at most n characters.
Texts(n) == UNION {[1..k -> Letters \cup {Space}] : k \in 0..n}

\* Runs of handleNonStreamingResponse over every document.
DocumentNext ==
  \/ /\ ~document.sent
     /\ \E response \in Texts(MaxTextLen), message \in {<<>>, <<"y">>},
           tools \in {<<>>, <<"tool">>} :
          DocRespond([response |-> response, message |-> message,
                      mcp_tools_used |-> tools])
  \/ DocDrain

SpecDocument == Init /\ [][DocumentNext]_vars

\* sendMessage() returns a generator that will yield the given fragments.
Stream(fragments) ==
  /\ ~dashboard.sent
  /\ dashboard' = [fragments |-> fragments, run |-> NoDashboard.run, sent |-> TRUE]
  /\ UNCHANGED <<connVars, regVars, chatVars, outVars, stream, document>>

\* handleSendMessage runs its for-await loop to the end of the generator.
HandleSendMessage ==
  /\ dashboard.sent
  /\ dashboard.run.how = "pending"
  /\ dashboard' = [dashboard EXCEPT !.run = ForAwait(dashboard.fragments, 1, @)]
  /\ UNCHANGED <<connVars, regVars, chatVars, outVars, stream, document>>

\* The fragments a generator may yield: visible text, and visible text around
\* one block wrapped in the markers, whose content is JSON or not.
Fragments ==
  {<<"x">>, <<Space>>}
    \cup {pre \o <<McpStart, json, McpEnd>> \o post :
            pre \in {<<>>, <<"x">>}, post \in {<<>>, <<"y">>},
            json \in MetaJsons \cup {NotJson}}

\* Runs of the consumer loop over every sequence of fragments.
DashboardNext ==
  \/ /\ ~dashboard.sent
     /\ \E n \in 1..MaxFragments : \E fragments \in [1..n -> Fragments] :
          Stream(fragments)
  \/ HandleSendMessage

SpecDashboard == Init /\ [][DashboardNext]_vars

\* Runs in which the application sends a message only once the previous request
\* is over, as the dashboard does while isThinking is set; it may cancel.
OneAtATimeNext ==
  \/ /\ Len(calls) < MaxSends
     /\ \A i \in 1..Len(calls) : ~Active(calls[i])
     /\ SendMessage
  \/ CancelRequest
  \/ \E i \in 1..Len(calls) :
       \E result \in {"eventStream", "document", "httpError", "networkError"},
          words \in 1..MaxWords : FetchSettle(i, result, words)
  \/ \E i \in 1..Len(calls) :
       /\ calls[i].phase = "sse"
       /\ \E lines \in 0..MaxLines, body \in {"json", "readError"} :
            Pull(i, lines, body, FALSE, 1)
  \/ \E i \in 1..Len(calls) :
       /\ calls[i].phase = "docBody"
       /\ \E body \in {"json", "notJson", "readError"}, tools \in BOOLEAN,
             words \in 1..MaxWords : Pull(i, 0, body, tools, words)
  \/ \E i \in 1..Len(calls) :
       /\ calls[i].phase \in {"docWords", "fallback"}
       /\ Pull(i, 0, "json", FALSE, 1)
  \/ \E i \in 1..Len(calls) : Abandon(i)

SpecOneAtATime == Init /\ [][OneAtATimeNext]_vars

\* ------------------------------------------------- claims on the channel
Min(a, b) == IF a < b THEN a ELSE b

AllSocketsClosed == \A i \in 1..Len(sockets) : sockets[i].readyState = "CLOSED"

\* C1: after disconnect() returns, no socket is created until the application
\* calls connect() again, whatever state disconnect() was called from.
C1_NoConnectAfterDisconnect ==
  [][(disconnected /\ disconnected') => Len(sockets') = Len(sockets)]_vars

\* C2 as stated: once maxReconnectAttempts abnormal closes have followed each
\* other from a counter of zero, maxReconnectAttempts reconnects have been
\* scheduled and the channel is closed with no reconnect scheduled.
C2_ClosedAfterMaxCloses ==
  (streak.pure /\ streak.closes = maxReconnectAttempts) =>
    /\ streak.scheduled = maxReconnectAttempts
    /\ GetConnectionState = "closed"
    /\ reconnectTimers = {}

\* C2, amended: in a run of abnormal closes that starts with the counter at
\* zero and has no successful open, the n-th close schedules the n-th
\* reconnect for n = 1..maxReconnectAttempts; it is the close after these, that
\* of the socket the last attempt created, that schedules nothing and leaves
\* the channel closed with no reconnect scheduled.
C2_ReconnectBound ==
  streak.pure =>
    /\ streak.scheduled = Min(streak.closes, maxReconnectAttempts)
    /\ streak.closes <= maxReconnectAttempts + 1
    /\ streak.closes = maxReconnectAttempts + 1 =>
          /\ GetConnectionState = "closed"
          /\ reconnectTimers = {}
          /\ AllSocketsClosed

C2_Witness ==
  /\ streak.pure
  /\ streak.closes = maxReconnectAttempts + 1
  /\ streak.scheduled = maxReconnectAttempts
  /\ Len(sockets) = maxReconnectAttempts + 1
  /\ reconnectTimers = {}

\* C7: connect(u) called while the channel is connecting, or open for u,
\* resolves at once and changes neither the sockets nor userId, the reconnect
\* counter, the connecting flag, the timers or the listener registry.
C7_ConnectNoOp ==
  [][\A u \in Users :
       (Connect(u) /\ (GetConnectionState = "connecting"
                        \/ (GetConnectionState = "open" /\ userId = u)))
       => /\ ret' \in {"resolvedConnecting", "resolvedOpen"}
          /\ UNCHANGED <<ws, userId, reconnectAttempts, isConnecting, sockets,
                         promise, timeoutsFired, reconnectTimers, listeners>>]_vars

C7_Witness ==
  /\ ret = "resolvedOpen"
  /\ appCalls = 2
  /\ Len(sockets) = 1
  /\ GetConnectionState = "open"
  /\ \E t \in Topics : Has(listeners[t], "cb1")

\* C8: after connect(B) replaced an open connection for A, no socket for A is
\* created unless the application calls connect(A).
C8_StaysBound ==
  [][(switchedFrom # NoUser /\ switchedFrom' = switchedFrom
        /\ Len(sockets') > Len(sockets))
     => sockets'[Len(sockets')].user # switchedFrom]_vars

\* C9: when the 5000 ms timer of an attempt runs while the attempt's socket is
\* still CONNECTING, the attempt's promise is rejected with the timeout error
\* and getConnectionState() returns closed.
C9_TimeoutClosesChannel ==
  [][(timeoutsFired' = timeoutsFired + 1
        /\ ReadyState(timeoutsFired + 1) = "CONNECTING")
     => /\ promise'[timeoutsFired + 1] = "rejectedTimeout"
        /\ GetConnectionState' = "closed"]_vars

\* C10: in a run of abnormal closes the k-th reconnect is scheduled with delay
\* reconnectDelay * k, the counter is k from the moment it is scheduled, and
\* it reconnects the user of the closed socket.
C10_LinearBackoff ==
  \A t \in reconnectTimers :
    streak.pure =>
      /\ t.delay = reconnectDelay * t.k
      /\ reconnectAttempts = t.k
      /\ t.user = sockets[t.sock].user

C12_IdempotentDisconnect ==
  [][Disconnect =>
       /\ GetConnectionState' = "closed"
       /\ userId' = NoUser
       /\ \A t \in Topics : listeners'[t] = <<>>
       /\ (ret \in {"disconnected", "disconnectedAgain"} /\ ws = 0 /\ userId = NoUser)
            => UNCHANGED <<ws, userId, reconnectAttempts, isConnecting, sockets,
                           promise, timeoutsFired, reconnectTimers, listeners>>]_vars

C12_Witness ==
  /\ ret = "disconnectedAgain"
  /\ Len(sockets) = 1
  /\ sockets[1].readyState = "CLOSING"
  /\ Len(regs) = 1
  /\ GetConnectionState = "closed"
  /\ userId = NoUser
  /\ \A t \in Topics : listeners[t] = <<>>

\* C22: sendHeartbeat() and requestUpdate(type) called while the channel is
\* not open hand nothing to a socket, raise no error and change nothing in
\* the channel; the handshake that later opens the channel sends nothing.
C22_SendOnlyWhenOpen ==
  [][/\ ((SendHeartbeat \/ \E type \in Topics : RequestUpdate(type))
          /\ GetConnectionState # "open")
        => /\ outbox' = outbox
           /\ ~lastSend'.threw
           /\ UNCHANGED <<connVars, regVars>>
     /\ (\E s \in 1..Len(sockets) : SocketOpen(s)) => outbox' = outbox]_vars

C22_Witness ==
  /\ lastSend.call = "request_update"
  /\ lastSend.found = "connecting"
  /\ ~lastSend.threw
  /\ outbox = <<>>
  /\ GetConnectionState = "open"

\* C26: the reconnect counter never exceeds maxReconnectAttempts, whatever
\* the order of close events, timers and application calls.
C26_CounterBounded == reconnectAttempts <= maxReconnectAttempts

\* C27: whenever the channel is open the reconnect counter is zero: nothing
\* undoes the reset of onopen while the connection stays open.
C27_OpenMeansZero == GetConnectionState = "open" => reconnectAttempts = 0

\* C28: while the current attempt is connecting, the 5000 ms timer of an
\* earlier attempt and the close or error event of another socket leave the
\* connecting flag set and the attempt's promise as it was.
C28_AttemptIsolation ==
  [][(ws # 0 /\ ReadyState(ws) = "CONNECTING" /\ isConnecting) =>
       /\ (TimeoutFire /\ timeoutsFired + 1 # ws)
            => (isConnecting' /\ promise'[ws] = promise[ws])
       /\ \A s \in 1..Len(sockets) :
            \A code \in {NormalClosure, GoingAway, NoStatusRcvd, AbnormalClosure} :
              (s # ws /\ (SocketClose(s, code)
                            \/ (code = AbnormalClosure /\ SocketFail(s))))
              => (isConnecting' /\ promise'[ws] = promise[ws])]_vars

\* ------------------------------------------------ claims on the registry
Calls(c) == {i \in 1..Len(lastMsg.calls) : lastMsg.calls[i].cb = c}

\* C5: in a dispatch whose callbacks return or throw, every callback registered
\* for the envelope's topic is invoked exactly once, with the full envelope,
\* whichever of the others throw, and no exception leaves notifyListeners.
C5_TotalFanOut ==
  (lastMsg.kind = "dispatched" /\ ~lastMsg.mutated) =>
    /\ ~lastMsg.escaped
    /\ \A c \in Callbacks :
         Cardinality(Calls(c)) = IF Has(lastMsg.registered, c) THEN 1 ELSE 0
    /\ \A i \in 1..Len(lastMsg.calls) : lastMsg.calls[i].arg = lastMsg.envelope

C5_Witness ==
  /\ lastMsg.kind = "dispatched"
  /\ ~lastMsg.mutated
  /\ Len(lastMsg.registered) = 2
  /\ Len(lastMsg.calls) = 2
  /\ lastMsg.calls[1].threw
  /\ ~lastMsg.calls[2].threw

\* C23: an inbound message that is not an envelope is dropped: no callback is
\* invoked, no error leaves onmessage, and the connection, the reconnect
\* counter and the registry stay as they were; an envelope that arrives after
\* it is dispatched to every registered callback.
C23_MalformedDropped ==
  /\ [][\A s \in 1..Len(sockets) : \A m \in Messages \ Envelopes :
          OnMessage(s, m)
          => /\ lastMsg'.kind = "dropped"
             /\ lastMsg'.calls = <<>>
             /\ ~lastMsg'.escaped
             /\ UNCHANGED <<connVars, listeners, regs>>]_vars
  /\ [](lastMsg.kind = "dispatched" /\ lastMsg.afterDrop
         => /\ ~lastMsg.escaped
            /\ lastMsg.registered # <<>> => lastMsg.calls # <<>>
            /\ ~lastMsg.mutated =>
                 \A c \in Callbacks :
                   Cardinality(Calls(c)) = IF Has(lastMsg.registered, c) THEN 1 ELSE 0)

C23_Witness ==
  /\ lastMsg.kind = "dispatched"
  /\ lastMsg.afterDrop
  /\ Len(lastMsg.registered) = 2
  /\ Len(lastMsg.calls) = 2
  /\ ~lastMsg.escaped

\* C24: the callbacks invoked for an envelope are those registered for its
\* topic when its dispatch began, each once, whatever the callbacks do to the
\* registry while the dispatch runs.
C24_SnapshotDispatch ==
  lastMsg.kind = "dispatched" =>
    \A c \in Callbacks :
      Cardinality(Calls(c)) = IF Has(lastMsg.registered, c) THEN 1 ELSE 0

\* C6: a callback is in a topic's set exactly when some subscribe() call for
\* that topic and callback has not had its own unsubscribe called (and no
\* disconnect() came after it): an unsubscribe touches its registration only.
C6_ExactRegistration ==
  \A t \in Topics, c \in Callbacks :
    Has(listeners[t], c) <=>
      \E i \in 1..Len(regs) : regs[i].topic = t /\ regs[i].cb = c /\ regs[i].active

\* ---------------------------------- claims on the streaming response client
\* C3: once a second sendMessage() has started, the first call's sequence
\* yields no further fragment and ends with the cancellation signal.
C3_AtMostOneInFlight ==
  \A i \in 1..Len(calls) :
    calls[i].abortedBy = "send" =>
      /\ ~calls[i].lateYield
      /\ calls[i].phase = "ended" =>
           calls[i].outcome \in {"requestCancelled", "abortError"}

\* C4: after cancelRequest() on an active request, its sequence yields no
\* further fragment.
C4_NoFragmentAfterCancel ==
  \A i \in 1..Len(calls) : calls[i].abortedBy = "cancel" => ~calls[i].lateYield

\* C13: a request that failed for a reason other than cancellation (network
\* failure, non-success status) makes sendMessage() return the fallback
\* generator, never throw, and that generator ends by returning.
C13_FallbackOnFailure ==
  \A i \in 1..Len(calls) :
    calls[i].fetched \in {"httpError", "networkError"} =>
      /\ calls[i].phase \in {"fallback", "ended"}
      /\ calls[i].phase = "ended" =>
           (calls[i].outcome = "returned" /\ calls[i].ui = "saved")

C13_Witness ==
  \E i \in 1..Len(calls) :
    /\ calls[i].fetched = "networkError"
    /\ calls[i].phase = "ended"
    /\ calls[i].outcome = "returned"
    /\ ~calls[i].aborted

\* C25: a sequence of handleStreamingResponse that has ended, by the end of the
\* body or [DONE], a failed read, an abort, or the consumer's return(), no
\* longer holds the reader it acquired.
C25_ReaderReleased ==
  \A i \in 1..Len(calls) : calls[i].phase = "ended" => calls[i].reader # "held"

C25_Witness ==
  \E i, j \in 1..Len(calls) :
    /\ calls[i].outcome = "abandoned"
    /\ calls[i].reader = "released"
    /\ calls[j].outcome = "abortError"
    /\ calls[j].fetched = "eventStream"
    /\ calls[j].reader = "released"

\* C14: no failure of the transport other than a cancellation reaches the
\* consumer as a thrown error, a failed read of the event-stream body and an
\* unparsable single-document body included.
C14_NoThrowToConsumer ==
  \A i \in 1..Len(calls) :
    calls[i].outcome \notin {"readError", "syntaxError", "hardError"}

\* C15: an aborted request never yields the fallback sequence, and the
\* dashboard treats its end as a normal end: its catch block, which appends a
\* reply, is not run.
C15_CancelIsNotAnError ==
  \A i \in 1..Len(calls) :
    /\ calls[i].fetched = "aborted" => calls[i].phase # "fallback"
    /\ calls[i].outcome \in {"requestCancelled", "abortError"} =>
         calls[i].ui # "errorReply"

\* ------------------------------------------- claims on the event-stream
IsDataLine(line) == StartsWith(line, DataPrefix)

IsDoneLine(line) == line = DataPrefix \o Done

PayloadOfLine(line) == Slice(line, Len(DataPrefix))

IsBadLine(line) ==
  IsDataLine(line) /\ ~IsDoneLine(line) /\ ~JsonParses(PayloadOfLine(line))

\* The content field of a line, empty when it has none.
LineContent(line) ==
  IF IsDataLine(line) /\ JsonParses(PayloadOfLine(line))
  THEN Content(PayloadOfLine(line)[1]) ELSE <<>>

RECURSIVE Concat(_)
Concat(seqs) == IF seqs = <<>> THEN <<>> ELSE Head(seqs) \o Concat(Tail(seqs))

ContentsOf(lines) == Concat([i \in 1..Len(lines) |-> LineContent(lines[i])])

Ran == stream.sent /\ stream.run.how = "done"

NoDoneLine == \A i \in 1..Len(stream.lines) : ~IsDoneLine(stream.lines[i])

\* C16: for every sequence of data lines without a [DONE] line, the
\* yielded fragments, concatenated, are the content fields of the lines,
\* concatenated in line order.
C16_RoundTrip ==
  (Ran /\ NoDoneLine) => Concat(stream.run.out) = ContentsOf(stream.lines)

Without(lines, i) == SubSeq(lines, 1, i - 1) \o SubSeq(lines, i + 1, Len(lines))

\* C17: a data line whose payload is neither [DONE] nor JSON is dropped: the
\* sequence yields exactly what it yields for the body without that line, so
\* the lines before and after it are not affected and the sequence goes on.
C17_MalformedLineDropped ==
  Ran =>
    \A i \in 1..Len(stream.lines) :
      IsBadLine(stream.lines[i]) =>
        LET rest == Without(stream.lines, i)
            term == (i = Len(stream.lines)) \/ stream.terminated
        IN stream.run.out = HandleStreamingResponse(Chunks(Body(rest, term), {})).out

C17_Witness ==
  /\ Ran
  /\ Len(stream.lines) = 3
  /\ stream.lines[1] = DataPrefix \o <<"{content:a}">>
  /\ stream.lines[2] = DataPrefix \o <<NotJson>>
  /\ stream.lines[3] = DataPrefix \o <<"{content:b}">>
  /\ stream.terminated
  /\ stream.cuts = {6}
  /\ stream.run.out = <<<<"a">>, <<"b">>>>

\* The position of the newline that ends line d, and the read that delivers
\* position p (the read that finds the body ended when p is past its end).
EndOf(d) == Len(Body(SubSeq(stream.lines, 1, d), TRUE))

ReadOf(p) ==
  IF p > Len(Body(stream.lines, stream.terminated))
  THEN Cardinality(stream.cuts) + 2
  ELSE 1 + Cardinality({c \in stream.cuts : c < p})

\* C18: a [DONE] line ends the sequence without an error: the fragments are
\* those of the lines before it, none is yielded for a line after it, in the
\* same read or a later one, and no read follows the one that delivers the
\* end of the [DONE] line.
C18_DoneEndsSequence ==
  Ran =>
    \A d \in 1..Len(stream.lines) :
      (IsDoneLine(stream.lines[d])
         /\ \A j \in 1..(d - 1) : ~IsDoneLine(stream.lines[j]))
      => /\ Concat(stream.run.out) = ContentsOf(SubSeq(stream.lines, 1, d - 1))
         /\ stream.run.reads = ReadOf(EndOf(d))
         /\ (d < Len(stream.lines) \/ stream.terminated) => stream.run.returned

C18_Witness ==
  /\ Ran
  /\ Len(stream.lines) = 3
  /\ stream.lines[1] = DataPrefix \o <<"{content:a}">>
  /\ IsDoneLine(stream.lines[2])
  /\ stream.lines[3] = DataPrefix \o <<"{content:b}">>
  /\ stream.cuts = {9}
  /\ stream.run.reads = 1
  /\ stream.run.out = <<<<"a">>>>

\* C29: for a fixed body the yielded fragments are those of the body read
\* in one piece, wherever the reads cut it: between lines, inside a line,
\* inside the prefix of a data line or inside the [DONE] payload.
C29_ChunkBoundaryIndependence ==
  Ran =>
    stream.run.out =
      HandleStreamingResponse(Chunks(Body(stream.lines, stream.terminated), {})).out

C29_Witness ==
  /\ Ran
  /\ Len(stream.lines) = 3
  /\ stream.lines[1] = DataPrefix \o <<"{content:a}">>
  /\ IsDoneLine(stream.lines[2])
  /\ stream.lines[3] = DataPrefix \o <<"{content:b}">>
  /\ stream.cuts = {7}
  /\ stream.run.reads = 2
  /\ stream.run.out = <<<<"a">>>>

\* C30: when the body ends, the last line yields its fragment even if no
\* newline follows it: the text left in the buffer is walked, not dropped.
C30_LastLineProcessed ==
  (Ran /\ NoDoneLine /\ ~stream.terminated) =>
    LET last == LineContent(stream.lines[Len(stream.lines)])
    IN last # <<>> =>
         /\ stream.run.out # <<>>
         /\ stream.run.out[Len(stream.run.out)] = last
         /\ Len(stream.run.out)
              = Cardinality({i \in 1..Len(stream.lines) : LineContent(stream.lines[i]) # <<>>})

\* -------------------------------------- claims on the single document
IsMeta(fragment) ==
  Len(fragment) >= 2 /\ fragment[1] = McpStart /\ fragment[Len(fragment)] = McpEnd

DocRan == document.sent /\ document.run.how = "done"

\* The fragments after the metadata fragment, if there is one.
WordFragments ==
  IF Len(document.data.mcp_tools_used) > 0 /\ document.run.out # <<>>
  THEN Tail(document.run.out) ELSE document.run.out

\* C19: the fragment wrapped in the markers is emitted, first, exactly when
\* the tool list is not empty; the fragments after it are the tokens of the
\* response text in order, each followed by one separator except the last,
\* and concatenate to the response text.
C19_SingleDocumentShape ==
  DocRan =>
    /\ (Len(document.data.mcp_tools_used) > 0)
          <=> (document.run.out # <<>> /\ IsMeta(document.run.out[1]))
    /\ \A i \in 1..Len(WordFragments) :
         LET f == WordFragments[i]
             token == IF i < Len(WordFragments) THEN SubSeq(f, 1, Len(f) - 1) ELSE f
         IN /\ ~IsMeta(f)
            /\ i < Len(WordFragments) => (f # <<>> /\ f[Len(f)] = Space)
            /\ \A j \in 1..Len(token) : token[j] # Space
    /\ Concat(WordFragments) = MessageOf(document.data)

C19_Witness ==
  /\ DocRan
  /\ document.data.response = <<"x", Space, "y">>
  /\ document.data.mcp_tools_used # <<>>
  /\ document.run.out = <<(<<McpStart, MetaJson, McpEnd>>), <<"x", Space>>, <<"y">>>>

\* ------------------------------------------- claims on the consumer loop
\* C20: the text the loop hands on, the displayed message and fullResponse,
\* holds neither marker, whatever fragments holding both markers it was fed,
\* those whose wrapped content is not JSON included.
C20_SentinelStripped ==
  (dashboard.sent /\ dashboard.run.how = "done") =>
    /\ ~Includes(dashboard.run.message, McpStart)
    /\ ~Includes(dashboard.run.message, McpEnd)
    /\ ~Includes(dashboard.run.fullResponse, McpStart)
    /\ ~Includes(dashboard.run.fullResponse, McpEnd)

\* The fragments that carry a metadata payload, in order of arrival.
Carriers ==
  {i \in 1..Len(dashboard.fragments) :
     LET m == Match(dashboard.fragments[i])
     IN m.found /\ ParsesAsJson(SubSeq(dashboard.fragments[i], m.from + 1, m.to - 1))}

PayloadOf(i) == dashboard.fragments[i][Match(dashboard.fragments[i]).from + 1]

\* The text of a fragment around its metadata block.
VisibleOf(i) ==
  LET chunk == dashboard.fragments[i]
      m == Match(chunk)
  IN IF i \in Carriers
     THEN SubSeq(chunk, 1, m.from - 1) \o SubSeq(chunk, m.to + 1, Len(chunk))
     ELSE chunk

\* C21: the metadata of a stream is that of the first fragment that carries
\* one: a later fragment with another payload changes neither the metadata the
\* loop holds nor the metadata attached to the displayed message, and the text
\* around its block is still handed on.
C21_FirstMetadataWins ==
  (dashboard.sent /\ dashboard.run.how = "done" /\ Carriers # {}) =>
    LET first == CHOOSE i \in Carriers : \A j \in Carriers : i <= j
    IN /\ dashboard.run.mcpToolsData = PayloadOf(first)
       /\ dashboard.run.mcpTools \in {Null, PayloadOf(first)}
       /\ dashboard.run.fullResponse =
            Concat([i \in 1..Len(dashboard.fragments) |-> VisibleOf(i)])

====
